---- MODULE Spec2Model ----
(***************************************************************************)
(* Model of the patch-landing scripts apply_patch.py,                      *)
(* apply_patch_and_push_fix.py and apply_patch_and_push.py: the two        *)
(* "keep incoming" conflict resolvers as functions on line sequences, and  *)
(* the apply / scan / resolve / publish pipeline of each script over a     *)
(* small working copy with a git index, HEAD and remote.                   *)
(***************************************************************************)
EXTENDS Integers, Sequences, FiniteSets, TLC

(* ---------------------------------------------------------------------- *)
(* Lines and files.  A line is a sequence of tokens, so that               *)
(* line.startswith(m) (first token) differs from "m in text" (any token).  *)
(* ---------------------------------------------------------------------- *)
START == "<<<<<<<"
SEP == "======="
END == ">>>>>>>"

La == <<"a">>
Lb == <<"b">>
Lstart == <<START, "ours">>
Lsep == <<SEP>>
Lend == <<END, "theirs">>
Lind == <<"a", START>>

OrdLines == {La, Lb}
Lines == {La, Lb, Lstart, Lsep, Lend, Lind}

MaxLen == 5
MaxSegs == 3
MaxSide == 1

RECURSIVE SeqsUpTo(_, _)
SeqsUpTo(S, n) ==
  IF n = 0 THEN {<<>>}
  ELSE LET shorter == SeqsUpTo(S, n - 1)
       IN shorter \cup {Append(s, x) : s \in {t \in shorter : Len(t) = n - 1}, x \in S}

StartsWith(line, m) == Len(line) > 0 /\ line[1] = m
Contains(line, m) == \E t \in 1..Len(line) : line[t] = m
IsMarker(line) == StartsWith(line, START) \/ StartsWith(line, SEP) \/ StartsWith(line, END)

(* ---------------------------------------------------------------------- *)
(* resolve_conflicts of apply_patch.py: index-driven scan.                 *)
(* ---------------------------------------------------------------------- *)
RECURSIVE SkipUntil(_, _, _)
SkipUntil(lines, i, m) ==
  IF i <= Len(lines) /\ ~StartsWith(lines[i], m) THEN SkipUntil(lines, i + 1, m) ELSE i

RECURSIVE ResolveFrom(_, _)
ResolveFrom(lines, i) ==
  IF i > Len(lines) THEN <<>>
  ELSE IF StartsWith(lines[i], START)
       THEN LET j == SkipUntil(lines, i + 1, SEP)
                k == j + 1
                e == SkipUntil(lines, k, END)
            IN SubSeq(lines, k, e - 1) \o ResolveFrom(lines, e + 1)
       ELSE <<lines[i]>> \o ResolveFrom(lines, i + 1)

resolve_conflicts_skip_first(lines) == ResolveFrom(lines, 2)
resolve_conflicts_drop_last(lines) == ResolveFrom(SubSeq(lines, 1, Len(lines) - 1), 1)
resolve_conflicts(lines) == ResolveFrom(lines, 1)

(* ---------------------------------------------------------------------- *)
(* The resolver loop of backup_and_resolve (apply_patch_and_push_fix.py):  *)
(* one pass with the flags in_conflict and keep_new.                       *)
(* ---------------------------------------------------------------------- *)
RECURSIVE ResolveLoop(_, _, _, _, _)
ResolveLoop(lines, i, in_conflict, keep_new, new_lines) ==
  IF i > Len(lines) THEN new_lines
  ELSE LET line == lines[i] IN
       IF StartsWith(line, START) THEN ResolveLoop(lines, i + 1, TRUE, FALSE, new_lines)
       ELSE IF StartsWith(line, SEP) /\ in_conflict
            THEN ResolveLoop(lines, i + 1, in_conflict, TRUE, new_lines)
       ELSE IF StartsWith(line, END) /\ in_conflict
            THEN ResolveLoop(lines, i + 1, FALSE, keep_new, new_lines)
       ELSE IF ~in_conflict \/ keep_new
            THEN ResolveLoop(lines, i + 1, in_conflict, keep_new, Append(new_lines, line))
       ELSE ResolveLoop(lines, i + 1, in_conflict, keep_new, new_lines)

backup_and_resolve_lines_unchanged(lines) == lines
backup_and_resolve_lines(lines) == ResolveLoop(lines, 1, FALSE, FALSE, <<>>)

(* ---------------------------------------------------------------------- *)
(* Files built from segments: an ordinary line, or a conflict region with  *)
(* an ours side and a theirs side of ordinary lines.                       *)
(* ---------------------------------------------------------------------- *)
OursSides == SeqsUpTo({La}, MaxSide)
TheirsSides == SeqsUpTo({Lb}, MaxSide)
OrdSegs == {[region |-> FALSE, line |-> l] : l \in OrdLines \cup {Lind}}
RegionSegs == {[region |-> TRUE, ours |-> o, theirs |-> t] : o \in OursSides, t \in TheirsSides}
SegSeqs == SeqsUpTo(OrdSegs \cup RegionSegs, MaxSegs)

RECURSIVE Render(_)
Render(ss) ==
  IF ss = <<>> THEN <<>>
  ELSE LET s == Head(ss) IN
       (IF s.region THEN <<Lstart>> \o s.ours \o <<Lsep>> \o s.theirs \o <<Lend>>
        ELSE <<s.line>>) \o Render(Tail(ss))

RECURSIVE KeepTheirs(_)
KeepTheirs(ss) ==
  IF ss = <<>> THEN <<>>
  ELSE LET s == Head(ss) IN
       (IF s.region THEN s.theirs ELSE <<s.line>>) \o KeepTheirs(Tail(ss))

NumRegions(ss) == Cardinality({i \in 1..Len(ss) : ss[i].region})

(* ---------------------------------------------------------------------- *)
(* Working copy and repository.  A tree maps the names of the files that   *)
(* exist to their lines.  A name is <<stem, k>>: the stem followed by k     *)
(* ".bak" suffixes.                                                        *)
(* ---------------------------------------------------------------------- *)
MaxRuns == 2
(* runs explored in a repository whose .git directory holds a listed file *)
MaxGitRuns == 1

F == <<"f", 0>>
REJ == <<"f.rej", 0>>
LOG == <<"patch_apply.log", 0>>
PATCH == <<"code.patch", 0>>
(* a file of the repository's .git directory: the ref of a branch named   *)
(* keep.orig, holding one line (the commit id)                             *)
GITREF == <<".git/refs/heads/keep.orig", 0>>
RefText == <<<<"63f8b3d">>>>

BakOf(n) == <<n[1], n[2] + 1>>
IsRejectName(n) == n[1] \in {"f.rej", GITREF[1]} /\ n[2] = 0
InGitDir(n) == n[1] = GITREF[1]

Put(t, n, c) == [m \in DOMAIN t \cup {n} |-> IF m = n THEN c ELSE t[m]]
Del(t, S) == [m \in DOMAIN t \ S |-> t[m]]

RejText == <<Lb>>
ConflictHunk == <<Lstart, La, Lsep, Lb, Lend>>
InitContents == {<<La>>, <<La, Lstart, La>>, <<La, Lind>>}

PatchApplied(c) == Len(c) > 0 /\ c[Len(c)] = Lb

(* git, seen through its effect on (worktree, index, HEAD, remote) *)
(* git neither stages nor cleans what lies under .git *)
WorkingCopy(w) == Del(w, {n \in DOMAIN w : InGitDir(n)})
GitAddAll(w, ix) == WorkingCopy(w)
GitAddPath(w, ix, n) == IF n \in DOMAIN w THEN Put(ix, n, w[n]) ELSE Del(ix, {n})
GitResetPaths(ix, hd, P) ==
  [m \in (DOMAIN ix \ P) \cup (DOMAIN hd \cap P) |-> IF m \in P THEN hd[m] ELSE ix[m]]
GitResetHardTree(w, ix, hd) ==
  [m \in (DOMAIN w \ DOMAIN ix) \cup DOMAIN hd |-> IF m \in DOMAIN hd THEN hd[m] ELSE w[m]]
GitCleanTree(w, ix) == Del(w, DOMAIN WorkingCopy(w) \ DOMAIN ix)
NothingToCommit(ix, hd) == ix = hd

Apply3WayOutcomes(w) ==
  IF F \notin DOMAIN w THEN {"fail"}
  ELSE IF PatchApplied(w[F]) THEN {"conflict", "fail"} ELSE {"clean", "conflict", "fail"}
ApplyRejectOutcomes(w) ==
  IF F \notin DOMAIN w THEN {"fail"}
  ELSE IF PatchApplied(w[F]) THEN {"rejects", "fail"} ELSE {"clean", "rejects", "fail"}
Apply3WayTree(w, o) ==
  IF o = "clean" THEN Put(w, F, Append(w[F], Lb))
  ELSE IF o = "conflict" THEN Put(w, F, w[F] \o ConflictHunk)
  ELSE w
Apply3WayIndex(w, ix, o) == IF o = "clean" THEN Put(ix, F, Append(w[F], Lb)) ELSE ix
ApplyRejectTree(w, o) ==
  IF o = "clean" THEN Put(w, F, Append(w[F], Lb))
  ELSE IF o = "rejects" THEN Put(w, REJ, RejText)
  ELSE w

(* parse_patch_files: the patch names one file *)
parse_patch_files == {F}
has_conflict_markers(c) == \E i \in 1..Len(c) : StartsWith(c[i], START)

VARIABLES rkind, segs, rin, rpc, rfile, rstatus, rprev,
          wt, index, head, remote,
          script, args, pc, runs, success, todo, cur, resolved, trace, exit_code,
          class, pre, baks, pubs, conflicts

rvars == <<rkind, segs, rin, rpc, rfile, rstatus, rprev>>
gvars == <<wt, index, head, remote>>
pvars == <<script, args, pc, runs, success, todo, cur, resolved, trace, exit_code, class, pre, baks,
          pubs, conflicts>>
vars == <<rvars, gvars, pvars>>

NoArgs == [valid |-> "ok", dry_run |-> FALSE, auto_commit |-> FALSE, auto_push |-> FALSE,
           cwd_is_repo |-> TRUE]
EmptyTree == [m \in {} |-> <<>>]

RestIdle ==
  /\ script = "none" /\ args = NoArgs /\ pc = "idle" /\ runs = 0 /\ success = FALSE
  /\ todo = {} /\ cur = <<>> /\ resolved = {} /\ trace = <<>> /\ exit_code = -1
  /\ class = "none" /\ baks = {} /\ pubs = <<>> /\ conflicts = {}
ResolverIdle ==
  /\ rkind = "raw" /\ segs = <<>> /\ rin = <<>> /\ rpc = "off" /\ rfile = <<>>
  /\ rstatus = "none" /\ rprev = <<>>

(* The file on disk before the resolver is called. *)
InitR ==
  /\ \/ /\ rkind = "raw"
        /\ segs = <<>>
        /\ rin \in SeqsUpTo(Lines, MaxLen)
     \/ /\ rkind = "regions"
        /\ segs \in SegSeqs
        /\ rin = Render(segs)
  /\ rpc = "start"
  /\ rfile = rin
  /\ rstatus = "none"
  /\ rprev = rin
  /\ wt = EmptyTree /\ index = EmptyTree /\ head = EmptyTree /\ remote = EmptyTree
  /\ pre = [wt |-> EmptyTree, index |-> EmptyTree, head |-> EmptyTree, remote |-> EmptyTree]
  /\ RestIdle

(* apply_patch.py: resolve_conflicts writes the result back and the caller *)
(* stages the file; there is no unresolved outcome.  It may be called      *)
(* again on the file it wrote.                                             *)
ResolveA ==
  /\ rpc \in {"start", "A"}
  /\ rprev' = rfile
  /\ rfile' = resolve_conflicts(rfile)
  /\ rstatus' = "resolved"
  /\ rpc' = IF rpc = "start" THEN "A" ELSE "AA"
  /\ UNCHANGED <<rkind, segs, rin, gvars, pvars>>

(* apply_patch_and_push_fix.py: the loop, the write and resolved.append.   *)
ResolveB ==
  /\ rpc \in {"start", "B"}
  /\ rprev' = rfile
  /\ rfile' = backup_and_resolve_lines(rfile)
  /\ rstatus' = "resolved"
  /\ rpc' = IF rpc = "start" THEN "B" ELSE "BB"
  /\ UNCHANGED <<rkind, segs, rin, gvars, pvars>>

NextR == ResolveA \/ ResolveB
SpecR == InitR /\ [][NextR]_vars

(* ---------------------------------------------------------------------- *)
(* Pipeline runs.  trace lists what the current run issued, in order.      *)
(* ---------------------------------------------------------------------- *)
Ev(c, r) == [c |-> c, r |-> r]
Snapshot == [wt |-> wt, index |-> index, head |-> head, remote |-> remote]

Valids == {"ok", "no_patch", "no_repo", "no_git"}
ArgsOf(s) ==
  IF s = "apply_patch"
  THEN {[NoArgs EXCEPT !.valid = v] : v \in Valids}
  ELSE {[valid |-> v, dry_run |-> d, auto_commit |-> c, auto_push |-> p, cwd_is_repo |-> w] :
          v \in Valids, d \in BOOLEAN, c \in BOOLEAN, p \in BOOLEAN, w \in BOOLEAN}

GitDirs == {EmptyTree, [m \in {GITREF} |-> RefText]}
RunsAllowed(w) == IF \E n \in DOMAIN w : InGitDir(n) THEN MaxGitRuns ELSE MaxRuns

Init ==
  /\ ResolverIdle
  /\ \E c \in InitContents : \E g \in GitDirs :
        /\ (g # EmptyTree => c = <<La>>)
        /\ index = [m \in {F} |-> c]
        /\ wt = [m \in {F} \cup DOMAIN g |-> IF m = F THEN c ELSE g[m]]
        /\ head = index /\ remote = index
        /\ pre = [wt |-> wt, index |-> index, head |-> index, remote |-> index]
  /\ RestIdle

StartRun ==
  /\ pc \in {"idle", "done"}
  /\ runs < RunsAllowed(wt)
  /\ \E s \in {"apply_patch", "fix"} : \E a \in ArgsOf(s) :
        /\ script' = s
        /\ args' = a
  /\ pc' = "validate"
  /\ runs' = runs + 1
  /\ success' = FALSE /\ todo' = {} /\ cur' = <<>> /\ resolved' = {}
  /\ trace' = <<>> /\ exit_code' = -1 /\ class' = "none"
  /\ pre' = Snapshot
  /\ conflicts' = {}
  /\ UNCHANGED <<rvars, gvars, baks, pubs>>

(* ---------------- apply_patch.py ---------------- *)
validate_paths_skipped(v) == TRUE
validate_paths(v) == v = "ok"

A_Validate ==
  /\ pc = "validate" /\ script = "apply_patch"
  /\ IF validate_paths(args.valid)
     THEN pc' = "apply" /\ UNCHANGED exit_code
     ELSE pc' = "done" /\ exit_code' = 1
  /\ UNCHANGED <<rvars, gvars, script, args, runs, success, todo, cur, resolved, trace, class,
                 pre, baks, pubs, conflicts>>

A_NeedsReject_always(ok) == TRUE
A_NeedsReject(ok) == ~ok

A_Apply3Way ==
  /\ pc = "apply" /\ script = "apply_patch"
  /\ \E o \in Apply3WayOutcomes(wt) :
        /\ wt' = Apply3WayTree(wt, o)
        /\ index' = Apply3WayIndex(wt, index, o)
        /\ trace' = Append(trace, Ev("apply3way", IF o = "clean" THEN "ok" ELSE "fail"))
        /\ pc' = IF A_NeedsReject(o = "clean") THEN "reject" ELSE "resolve"
  /\ UNCHANGED <<rvars, head, remote, script, args, runs, success, todo, cur, resolved,
                 exit_code, class, pre, baks, pubs, conflicts>>

A_ApplyReject ==
  /\ pc = "reject" /\ script = "apply_patch"
  /\ \E o \in ApplyRejectOutcomes(wt) :
        /\ wt' = ApplyRejectTree(wt, o)
        /\ trace' = Append(trace, Ev("applyreject", IF o = "clean" THEN "ok" ELSE "fail"))
        /\ IF o = "clean"
           THEN pc' = "resolve" /\ UNCHANGED exit_code
           ELSE pc' = "done" /\ exit_code' = 1
  /\ UNCHANGED <<rvars, index, head, remote, script, args, runs, success, todo, cur, resolved,
                 class, pre, baks, pubs, conflicts>>

(* the loop over the patch's files: resolve and stage each conflicted one *)
A_Conflicted(w) == {n \in parse_patch_files : n \in DOMAIN w /\ has_conflict_markers(w[n])}

A_Resolve ==
  /\ pc = "resolve" /\ script = "apply_patch"
  /\ LET hit == F \in A_Conflicted(wt)
         w1 == IF hit THEN Put(wt, F, resolve_conflicts(wt[F])) ELSE wt
     IN /\ wt' = w1
        /\ index' = IF hit THEN GitAddPath(w1, index, F) ELSE index
        /\ resolved' = IF hit THEN {F} ELSE {}
        /\ trace' = IF hit THEN trace \o <<Ev("write", "ok"), Ev("add", "ok")>> ELSE trace
  /\ pc' = "publish"
  /\ UNCHANGED <<rvars, head, remote, script, args, runs, success, todo, cur, exit_code, class,
                 pre, baks, pubs, conflicts>>

CommitOutcomes(ix, hd) == IF NothingToCommit(ix, hd) THEN {"nothing"} ELSE {"ok", "fail"}
PushOutcomes == {"ok", "fail"}

(* commit_and_push: "nothing to commit" on stdout ends the step, anything  *)
(* else goes on to push                                                    *)
A_SaysNothingToCommit(co) == co = "nothing"

(* the commands commit_and_push issues, in order *)
A_PublishEvents_push_first(co, po, pushes) ==
  <<Ev("add", "ok")>> \o (IF pushes THEN <<Ev("push", po)>> ELSE <<>>) \o <<Ev("commit", co)>>
A_PublishEvents(co, po, pushes) ==
  <<Ev("add", "ok"), Ev("commit", co)>> \o (IF pushes THEN <<Ev("push", po)>> ELSE <<>>)

commit_and_push(base) ==
  LET ix1 == GitAddAll(wt, index) IN
  \E co \in CommitOutcomes(ix1, head) : \E po \in PushOutcomes :
     LET hd1 == IF co = "ok" THEN ix1 ELSE head
         pushes == ~A_SaysNothingToCommit(co)
     IN /\ index' = ix1
        /\ head' = hd1
        /\ remote' = IF pushes /\ po = "ok" THEN hd1 ELSE remote
        /\ trace' = base \o A_PublishEvents(co, po, pushes)
        /\ class' = IF pushes THEN "Committed" ELSE "NothingToCommit"
        /\ exit_code' = IF pushes /\ po = "fail" THEN 1 ELSE 0

A_Publish ==
  /\ pc = "publish" /\ script = "apply_patch"
  /\ commit_and_push(trace)
  /\ pc' = "done"
  /\ UNCHANGED <<rvars, wt, script, args, runs, success, todo, cur, resolved, pre, baks, pubs, conflicts>>

NextA == A_Validate \/ A_Apply3Way \/ A_ApplyReject \/ A_Resolve \/ A_Publish

(* ---------------- apply_patch_and_push_fix.py ---------------- *)
SCRIPT == <<"apply_patch_and_push_fix.py", 0>>
ExcludeSet == {PATCH, SCRIPT, LOG}

(* run_cmd: a dry run logs the command and reports success without running it *)
run_cmd(dry, r) == IF dry THEN "dry" ELSE r
RanOk(r) == r \in {"ok", "dry"}

valid_repo(v) == v = "ok"

F_Validate ==
  /\ pc = "validate" /\ script = "fix"
  /\ IF valid_repo(args.valid)
     THEN pc' = "apply" /\ UNCHANGED exit_code
     ELSE pc' = "done" /\ exit_code' = 0
  /\ UNCHANGED <<rvars, gvars, script, args, runs, success, todo, cur, resolved, trace, class,
                 pre, baks, pubs, conflicts>>

F_NeedsFallback(ok) == ~ok

(* apply_patch(repo, patch_path, dry_run) and the test of its result in main *)
F_Apply ==
  /\ pc = "apply" /\ script = "fix"
  /\ \E o \in Apply3WayOutcomes(wt) :
        LET r == run_cmd(args.dry_run, IF o = "clean" THEN "ok" ELSE "fail") IN
        /\ wt' = IF args.dry_run THEN wt ELSE Apply3WayTree(wt, o)
        /\ index' = IF args.dry_run THEN index ELSE Apply3WayIndex(wt, index, o)
        /\ trace' = Append(trace, Ev("apply3way", r))
        /\ success' = RanOk(r)
        /\ pc' = IF F_NeedsFallback(RanOk(r)) THEN "fallback" ELSE "scan"
  /\ UNCHANGED <<rvars, head, remote, script, args, runs, todo, cur, resolved, exit_code, class,
                 pre, baks, pubs, conflicts>>

(* fallback_attempt: git reset --hard, git clean -fd, then apply_patch again *)
fallback_attempt ==
  LET w1 == IF args.dry_run THEN wt ELSE GitResetHardTree(wt, index, head)
      ix1 == IF args.dry_run THEN index ELSE head
      w2 == IF args.dry_run THEN w1 ELSE GitCleanTree(w1, ix1)
  IN \E o \in Apply3WayOutcomes(w2) :
        LET r == run_cmd(args.dry_run, IF o = "clean" THEN "ok" ELSE "fail") IN
        /\ wt' = IF args.dry_run THEN w2 ELSE Apply3WayTree(w2, o)
        /\ index' = IF args.dry_run THEN ix1 ELSE Apply3WayIndex(w2, ix1, o)
        /\ trace' = trace \o <<Ev("resethard", run_cmd(args.dry_run, "ok")),
                               Ev("clean", run_cmd(args.dry_run, "ok")),
                               Ev("apply3way", r)>>
        /\ success' = RanOk(r)

F_Fallback ==
  /\ pc = "fallback" /\ script = "fix"
  /\ fallback_attempt
  /\ pc' = "scan"
  /\ UNCHANGED <<rvars, head, remote, script, args, runs, todo, cur, resolved, exit_code, class,
                 pre, baks, pubs, conflicts>>

(* has_conflicts: reject artifacts by name, any other file by the start    *)
(* marker anywhere in its text                                             *)
HasStartText(c) == \E i \in 1..Len(c) : Contains(c[i], START)
has_conflicts(w) == {n \in DOMAIN w : IsRejectName(n) \/ HasStartText(w[n])}

(* main: with no conflicted file, commit only if the apply succeeded *)
F_CommitsWhenClean_always(ok) == TRUE
F_CommitsWhenClean(ok) == ok

F_Scan ==
  /\ pc = "scan" /\ script = "fix"
  /\ conflicts' = has_conflicts(wt)
  /\ todo' = has_conflicts(wt)
  /\ pc' = IF has_conflicts(wt) # {} THEN "resolve"
           ELSE IF F_CommitsWhenClean(success) THEN "publish" ELSE "log"
  /\ UNCHANGED <<rvars, gvars, script, args, runs, success, cur, resolved, trace, exit_code,
                 class, pre, baks, pubs>>

(* os.walk lists the files of the repository root before those of .git    *)
WalkNext(S) == IF \E n \in S : ~InGitDir(n) THEN {n \in S : ~InGitDir(n)} ELSE S

(* backup_and_resolve, one file of the list: the copy to <name>.bak ...     *)
F_Backup ==
  /\ pc = "resolve" /\ script = "fix" /\ cur = <<>>
  /\ \E n \in WalkNext(todo) :
        \/ /\ n \in DOMAIN wt
           /\ cur' = <<n>>
           /\ wt' = IF args.dry_run THEN wt ELSE Put(wt, BakOf(n), wt[n])
           /\ baks' = IF args.dry_run THEN baks ELSE baks \cup {BakOf(n)}
           /\ trace' = IF args.dry_run THEN trace ELSE Append(trace, Ev("backup", "ok"))
           /\ UNCHANGED todo
        \/ (* shutil.copy raises: the file is logged as failed and skipped *)
           /\ ~args.dry_run
           /\ todo' = todo \ {n}
           /\ UNCHANGED <<cur, wt, baks, trace>>
  /\ UNCHANGED <<rvars, index, head, remote, script, args, pc, runs, success, resolved,
                 exit_code, class, pre, pubs, conflicts>>

(* ... then the rewrite of the file and resolved.append *)
F_Rewrite ==
  /\ pc = "resolve" /\ script = "fix" /\ cur # <<>>
  /\ LET n == cur[1] IN
        /\ wt' = IF args.dry_run THEN wt ELSE Put(wt, n, backup_and_resolve_lines(wt[n]))
        /\ trace' = IF args.dry_run THEN trace ELSE Append(trace, Ev("write", "ok"))
        /\ resolved' = resolved \cup {n}
        /\ todo' = todo \ {n}
  /\ cur' = <<>>
  /\ UNCHANGED <<rvars, index, head, remote, script, args, pc, runs, success, exit_code, class,
                 pre, baks, pubs, conflicts>>

(* main, after backup_and_resolve returned: commit if anything was resolved *)
F_CommitsAfterResolve(res) == res # {}

F_Resolved ==
  /\ pc = "resolve" /\ script = "fix" /\ cur = <<>> /\ todo = {}
  /\ pc' = IF F_CommitsAfterResolve(resolved) THEN "publish" ELSE "log"
  /\ UNCHANGED <<rvars, gvars, script, args, runs, success, todo, cur, resolved, trace,
                 exit_code, class, pre, baks, pubs, conflicts>>

(* auto_commit_and_push: git add --all, git reset <excluded>, git commit,   *)
(* and git push when asked, whatever the commit did                        *)
F_Pushes(co, push) == push
(* git reset checks only its first argument against the working tree *)
ResetOk(w) == PATCH \in DOMAIN w

auto_commit_and_push(base) ==
  LET dry == args.dry_run
      ix1 == IF dry THEN index ELSE GitAddAll(wt, index)
      ix2 == IF dry \/ ~ResetOk(wt) THEN ix1 ELSE GitResetPaths(ix1, head, ExcludeSet)
  IN \E co \in CommitOutcomes(ix2, head) : \E po \in PushOutcomes :
     LET hd1 == IF ~dry /\ co = "ok" THEN ix2 ELSE head
         pushes == F_Pushes(co, args.auto_push)
     IN /\ index' = ix2
        /\ head' = hd1
        /\ remote' = IF pushes /\ ~dry /\ po = "ok" THEN hd1 ELSE remote
        /\ trace' = base \o <<Ev("add", run_cmd(dry, "ok")),
                              Ev("reset", run_cmd(dry, IF ResetOk(wt) THEN "ok" ELSE "fail")),
                              Ev("commit", run_cmd(dry, co))>>
                         \o (IF pushes THEN <<Ev("push", run_cmd(dry, po))>> ELSE <<>>)
        /\ class' = IF dry THEN "DryRun"
                    ELSE IF co = "ok" THEN "Committed" ELSE "CommandFailed"

F_Publish ==
  /\ pc = "publish" /\ script = "fix"
  /\ auto_commit_and_push(trace)
  /\ pc' = "log"
  /\ UNCHANGED <<rvars, wt, script, args, runs, success, todo, cur, resolved, exit_code, pre,
                 baks, pubs, conflicts>>

(* write_log_file(Path.cwd() / "patch_apply.log"), then main returns *)
LogLines(tr) == [i \in 1..Len(tr) |-> <<"log", tr[i].c, tr[i].r>>]
write_log_file(w, tr, inrepo) == IF inrepo THEN Put(w, LOG, LogLines(tr)) ELSE w

F_Log ==
  /\ pc = "log" /\ script = "fix"
  /\ wt' = write_log_file(wt, trace, args.cwd_is_repo)
  /\ pc' = "done"
  /\ exit_code' = 0
  /\ UNCHANGED <<rvars, index, head, remote, script, args, runs, success, todo, cur, resolved,
                 trace, class, pre, baks, pubs, conflicts>>

NextF ==
  \/ F_Validate \/ F_Apply \/ F_Fallback \/ F_Scan \/ F_Backup \/ F_Rewrite \/ F_Resolved
  \/ F_Publish \/ F_Log

Next == StartRun \/ NextA \/ NextF
Spec == Init /\ [][Next]_vars

(* ---------------------------------------------------------------------- *)
(* The publish steps on their own, run repeatedly on one repository:       *)
(* commit_and_push, auto_commit_and_push and main of                       *)
(* apply_patch_and_push.py.  pubs records each run of the step.            *)
(* ---------------------------------------------------------------------- *)
MaxPubs == 2

PubEntry(before, after, tr, cl, ec) ==
  [before |-> before, after |-> after, trace |-> tr, class |-> cl, exit |-> ec]

InitPub ==
  /\ ResolverIdle
  /\ head = [m \in {F} |-> <<La>>]
  /\ index = head /\ remote = head
  /\ wt = [m \in {F} |-> <<La, La>>]
  /\ pre = [wt |-> wt, index |-> index, head |-> head, remote |-> remote]
  /\ script \in {"apply_patch", "fix", "push"}
  /\ args \in {[NoArgs EXCEPT !.dry_run = d, !.auto_push = p] :
                 d \in (IF script = "fix" THEN BOOLEAN ELSE {FALSE}),
                 p \in (IF script = "fix" THEN BOOLEAN ELSE {FALSE})}
  /\ pc = "pub" /\ runs = 0 /\ success = FALSE /\ todo = {} /\ cur = <<>> /\ resolved = {}
  /\ trace = <<>> /\ exit_code = -1 /\ class = "none" /\ baks = {} /\ pubs = <<>> /\ conflicts = {}

PubA ==
  /\ script = "apply_patch" /\ Len(pubs) < MaxPubs
  /\ commit_and_push(<<>>)
  /\ pubs' = Append(pubs, PubEntry(wt, wt, trace', class', exit_code'))
  /\ UNCHANGED <<rvars, wt, script, args, pc, runs, success, todo, cur, resolved, pre, baks,
                 conflicts>>

PubF ==
  /\ script = "fix" /\ Len(pubs) < MaxPubs
  /\ auto_commit_and_push(<<>>)
  /\ exit_code' = 0
  /\ pubs' = Append(pubs, PubEntry(wt, wt, trace', class', exit_code'))
  /\ UNCHANGED <<rvars, wt, script, args, pc, runs, success, todo, cur, resolved, pre, baks,
                 conflicts>>

(* apply_patch_and_push.py: "git diff > code.patch" (the shell empties the  *)
(* file before git reads the tree), the size test, git add ., git commit,  *)
(* the "nothing to commit" test, git push                                  *)
DiffLine(ix, n) == <<"diff", n[1]>> \o (IF ix[n] = <<>> THEN <<>> ELSE ix[n][1])
GitDiff(w, ix) ==
  LET changed == {n \in DOMAIN ix : n \notin DOMAIN w \/ w[n] # ix[n]}
  IN (IF F \in changed THEN <<DiffLine(ix, F)>> ELSE <<>>)
       \o (IF PATCH \in changed THEN <<DiffLine(ix, PATCH)>> ELSE <<>>)
P_SaysNothingToCommit(co) == co = "nothing"

push_main ==
  LET w0 == Put(wt, PATCH, <<>>)
      w1 == Put(wt, PATCH, GitDiff(w0, index))
  IN /\ wt' = w1
     /\ IF w1[PATCH] = <<>>
        THEN /\ trace' = <<Ev("diff", "ok")>>
             /\ class' = "NoChanges"
             /\ exit_code' = 0
             /\ UNCHANGED <<index, head, remote>>
        ELSE LET ix1 == GitAddAll(w1, index) IN
             \E co \in CommitOutcomes(ix1, head) : \E po \in PushOutcomes :
                LET hd1 == IF co = "ok" THEN ix1 ELSE head
                    pushes == ~P_SaysNothingToCommit(co)
                IN /\ index' = ix1
                   /\ head' = hd1
                   /\ remote' = IF pushes /\ po = "ok" THEN hd1 ELSE remote
                   /\ trace' = <<Ev("diff", "ok"), Ev("add", "ok"), Ev("commit", co)>>
                                  \o (IF pushes THEN <<Ev("push", po)>> ELSE <<>>)
                   /\ class' = IF pushes THEN "Committed" ELSE "NothingToCommit"
                   /\ exit_code' = IF pushes /\ po = "fail" THEN 1 ELSE 0

PubP ==
  /\ script = "push" /\ Len(pubs) < MaxPubs
  /\ push_main
  /\ pubs' = Append(pubs, PubEntry(wt, wt', trace', class', exit_code'))
  /\ UNCHANGED <<rvars, script, args, pc, runs, success, todo, cur, resolved, pre, baks,
                 conflicts>>

(* git apply --3way lands the patch between two runs of the step *)
PubApply ==
  /\ "clean" \in Apply3WayOutcomes(wt)
  /\ wt' = Apply3WayTree(wt, "clean")
  /\ index' = Apply3WayIndex(wt, index, "clean")
  /\ UNCHANGED <<rvars, head, remote, pvars>>

NextPub == PubA \/ PubF \/ PubP \/ PubApply
SpecPub == InitPub /\ [][NextPub]_vars

(* ====================================================================== *)
(* Properties                                                              *)
(* ====================================================================== *)

FirstAt(lines, i, m) == SkipUntil(lines, i, m)
Unclosed(lines) ==
  \E i \in 1..Len(lines) :
     /\ StartsWith(lines[i], START)
     /\ LET j == FirstAt(lines, i + 1, SEP)
        IN \/ j > Len(lines)
           \/ FirstAt(lines, j + 1, END) > Len(lines)

\* C1: for a file of ordinary lines and N >= 1 well-formed regions, both
\* resolvers leave exactly the input with each region replaced by its
\* theirs-lines.
C1_RegionsReplacedByTheirs ==
  (rkind = "regions" /\ NumRegions(segs) >= 1 /\ rpc \in {"A", "B"})
     => rfile = KeepTheirs(segs)

C1_Witness ==
  /\ rkind = "regions" /\ rpc = "A" /\ NumRegions(segs) >= 2
  /\ \E i \in 1..Len(segs) : segs[i].region /\ segs[i].ours # <<>> /\ segs[i].theirs # <<>>
  /\ \E i \in 1..Len(segs) : ~segs[i].region
  /\ rfile = KeepTheirs(segs) /\ rfile # rin

\* C2: a file with a start marker whose region is never closed is reported
\* unresolved and is left byte-identical on disk.
C2_UnclosedLeftUntouched ==
  (rpc \in {"A", "B"} /\ Unclosed(rin)) => (rstatus = "unresolved" /\ rfile = rin)

\* C9 as stated: after a file is reported resolved, no line of it begins
\* with a start, separator or end marker, whatever the input was.
C9_NoMarkerAfterResolve ==
  (rpc \in {"A", "B"} /\ rstatus = "resolved")
     => \A i \in 1..Len(rfile) : ~IsMarker(rfile[i])

\* C9 (amended): after a file is reported resolved, no line of it begins
\* with a marker when the input was ordinary lines and well-formed regions;
\* and for any input the file written by backup_and_resolve has no line
\* beginning with the start marker.
C9_NoMarkerAfterWellFormed ==
  /\ (rpc \in {"A", "B"} /\ rstatus = "resolved" /\ rkind = "regions")
        => \A i \in 1..Len(rfile) : ~IsMarker(rfile[i])
  /\ (rpc = "B" /\ rstatus = "resolved")
        => \A i \in 1..Len(rfile) : ~StartsWith(rfile[i], START)

C9_Witness ==
  /\ rpc = "B" /\ rstatus = "resolved" /\ rkind = "raw"
  /\ \E i \in 1..Len(rin) : StartsWith(rin[i], START)
  /\ \E i \in 1..Len(rfile) : StartsWith(rfile[i], END)

HasMarkerLine(c) == \E i \in 1..Len(c) : IsMarker(c[i])
Issued(c) == \E i \in 1..Len(trace) : trace[i].c = c /\ trace[i].r # "dry"
InRun == pc \notin {"idle", "pub"}

\* C3: if a file is still conflicted after the resolution step (a marker
\* line remains, or it is a .rej/.orig artifact), no git commit is issued
\* in that run.  Backup copies are not counted as conflicted files.
C3_NoCommitWhileConflicted ==
  (InRun /\ Issued("commit"))
     => \A n \in DOMAIN WorkingCopy(wt) \ baks : ~(IsRejectName(n) \/ HasMarkerLine(wt[n]))

\* C4: a --dry-run of apply_patch_and_push_fix.py leaves the working copy
\* (file set and contents, backups and patch_apply.log included), the index,
\* the commits and the remote as they were before the run.
C4_DryRunChangesNothing ==
  (InRun /\ script = "fix" /\ args.dry_run) => Snapshot = pre

\* C5: when the first git apply --3way of a run succeeds, the run issues no
\* git apply --reject, git reset --hard, git clean -fd or second --3way.
C5_NoFallbackAfterCleanApply ==
  (InRun /\ Len(trace) >= 1 /\ trace[1].c = "apply3way" /\ RanOk(trace[1].r))
     => \A i \in 2..Len(trace) :
           trace[i].c \notin {"applyreject", "resethard", "clean", "apply3way"}

C5_Witness ==
  /\ pc = "done" /\ script = "fix" /\ ~args.dry_run
  /\ Len(trace) >= 2 /\ trace[1] = Ev("apply3way", "ok")
  /\ Issued("commit")

\* C6: the publish step run twice in succession on an unchanged working copy
\* commits the first time, is classified nothing-to-commit the second time,
\* and is not fatal either time (git itself not failing).
GitFailed(e) ==
  \E i \in 1..Len(e.trace) : e.trace[i].c \in {"commit", "push"} /\ e.trace[i].r = "fail"
C6_SecondPublishIsNoOp ==
  (/\ pc = "pub" /\ ~args.dry_run /\ Len(pubs) >= 2
   /\ pubs[2].before = pubs[1].after
   /\ ~GitFailed(pubs[1]) /\ ~GitFailed(pubs[2]))
     => /\ pubs[1].class = "Committed" /\ pubs[1].exit = 0
        /\ pubs[2].class = "NothingToCommit" /\ pubs[2].exit = 0

\* C7: a run of a publish step invokes git push only after the git commit of
\* that same run succeeded.
C7_PushOnlyAfterCommit ==
  \A i \in 1..Len(trace) :
     (trace[i].c = "push" /\ trace[i].r # "dry")
        => \E j \in 1..(i - 1) : trace[j].c = "commit" /\ trace[j].r = "ok"

\* C8: a run ends with exit code 0 when it succeeded or was a no-op, and
\* with a non-zero exit code when validation failed, when every apply
\* strategy failed, or when a conflict was left unresolved.
ApplyEvents == {i \in 1..Len(trace) : trace[i].c \in {"apply3way", "applyreject"}}
AllApplyFailed == ApplyEvents # {} /\ \A i \in ApplyEvents : trace[i].r = "fail"
ConflictLeft == \E n \in DOMAIN WorkingCopy(wt) \ baks : IsRejectName(n) \/ HasMarkerLine(wt[n])
AnyCommandFailed == \E i \in 1..Len(trace) : trace[i].r = "fail"
C8_ExitCodes ==
  (InRun /\ pc = "done")
     => /\ (args.valid # "ok" \/ AllApplyFailed \/ ConflictLeft) => exit_code # 0
        /\ (args.valid = "ok" /\ ~AnyCommandFailed /\ ~ConflictLeft) => exit_code = 0

\* C10: in a non-dry run of apply_patch_and_push_fix.py a file is rewritten
\* only when its backup already holds its content, and no step of any run
\* removes a backup file that the pipeline created.
C10_BackupsWrittenAndKept ==
  [][/\ (script = "fix" /\ pc = "resolve" /\ cur # <<>> /\ ~args.dry_run)
          => (BakOf(cur[1]) \in DOMAIN wt /\ wt[BakOf(cur[1])] = wt[cur[1]])
     /\ \A n \in baks : n \in DOMAIN wt => n \in DOMAIN wt']_vars

\* C11: a run of apply_patch_and_push_fix.py without --auto-commit issues no
\* git add, git commit or git push, whatever apply and resolution did.
C11_NoCommitWithoutFlag ==
  (InRun /\ script = "fix" /\ ~args.auto_commit)
     => ~(Issued("add") \/ Issued("commit") \/ Issued("push"))

\* C12: when the commit succeeds and git push fails, the run ends with a
\* non-zero status, nothing runs after the push, and the commit stays.
CommitOkAt(i) == trace[i].c = "commit" /\ trace[i].r = "ok"
PushFailedAt(i) == trace[i].c = "push" /\ trace[i].r = "fail"
C12_PushFailureIsFatal ==
  (InRun /\ pc = "done"
     /\ \E i \in 1..Len(trace) : CommitOkAt(i) /\ i < Len(trace) /\ PushFailedAt(i + 1))
     => /\ exit_code # 0
        /\ PushFailedAt(Len(trace))
        /\ head = index /\ head # pre.head

\* C13: when validation fails the run issues no git command and creates,
\* rewrites or deletes no file.
C13_InvalidRunTouchesNothing ==
  (InRun /\ args.valid # "ok")
     => (trace = <<>> /\ Snapshot = pre /\ pc \in {"validate", "done"})

C13_Witness ==
  /\ pc = "done" /\ args.valid = "no_patch" /\ script = "fix" /\ runs = 2
  /\ LOG \in DOMAIN wt /\ trace = <<>> /\ wt = pre.wt

\* C14 as stated: each resolver applied to its own output gives that output
\* again, for every input, and a file with no marker line is unchanged.
Resolved == rpc \in {"A", "B", "AA", "BB"}
C14_ResolverIdempotent ==
  /\ rpc \in {"AA", "BB"} => rfile = rprev
  /\ (Resolved /\ ~HasMarkerLine(rprev)) => rfile = rprev

\* C14 (amended): the loop of backup_and_resolve applied to its own output
\* gives that output again for every input; resolve_conflicts does so when
\* its output has no start-marker line, as for every file of ordinary lines
\* and well-formed regions; a file with no marker line is unchanged by both.
C14_IdempotentWithoutNestedStart ==
  /\ rpc = "BB" => rfile = rprev
  /\ (rpc = "AA" /\ (rkind = "regions" \/ ~has_conflict_markers(rprev))) => rfile = rprev
  /\ (Resolved /\ ~HasMarkerLine(rprev)) => rfile = rprev

C14_Witness ==
  /\ rpc = "BB" /\ rkind = "raw"
  /\ has_conflict_markers(rin) /\ rprev # rin /\ rprev # <<>> /\ rfile = rprev
  /\ HasMarkerLine(rprev)

\* C15: a commit created by auto_commit_and_push never takes in the patch
\* file, the driving script or patch_apply.log, whether or not each of them
\* exists in the repository.
C15_ExcludedNeverCommitted ==
  [][(script = "fix" /\ pc = "publish")
        => \A n \in ExcludeSet :
              n \in DOMAIN head' => (n \in DOMAIN head /\ head'[n] = head[n])]_vars

\* C16: when every apply strategy of the run failed and the conflict scan
\* found no conflicted file, the run issues no git add, commit or push.
Count(c) == Cardinality({i \in 1..Len(trace) : trace[i].c = c})
StrategiesExhausted ==
  \/ /\ script = "apply_patch" /\ pc = "done"
     /\ Count("apply3way") = 1 /\ Count("applyreject") = 1 /\ AllApplyFailed
  \/ /\ script = "fix" /\ pc \in {"publish", "log", "done"}
     /\ Count("apply3way") = 2 /\ AllApplyFailed /\ conflicts = {}
C16_NoPublishAfterTotalFailure ==
  (InRun /\ StrategiesExhausted)
     => \A i \in 1..Len(trace) : trace[i].c \notin {"add", "commit", "push"}

C16_Witness ==
  /\ script = "fix" /\ pc = "done" /\ StrategiesExhausted
  /\ Count("resethard") = 1 /\ Count("clean") = 1
  /\ LOG \in DOMAIN wt /\ wt[LOG] = LogLines(trace)

\* C17: within a run the apply-stage commands come before any resolver file
\* write, the writes before git commit, git commit before git push, and git
\* commit and git push are each issued at most once.
Stage(c) ==
  IF c \in {"apply3way", "applyreject", "resethard", "clean"} THEN 1
  ELSE IF c \in {"backup", "write"} THEN 2
  ELSE IF c = "commit" THEN 3
  ELSE IF c = "push" THEN 4
  ELSE 0
C17_StagesInOrder ==
  InRun =>
    /\ \A i, j \in 1..Len(trace) :
          (i < j /\ Stage(trace[i].c) # 0 /\ Stage(trace[j].c) # 0)
             => Stage(trace[i].c) <= Stage(trace[j].c)
    /\ Count("commit") <= 1 /\ Count("push") <= 1

C17_Witness ==
  /\ script = "fix" /\ pc = "done" /\ ~args.dry_run
  /\ Count("apply3way") = 2 /\ Count("write") >= 1
  /\ Count("commit") = 1 /\ Count("push") = 1

\* C18: the two resolvers agree: on every input line sequence, unclosed
\* regions, marker lines inside a region and stray markers included,
\* resolve_conflicts and the loop of backup_and_resolve give the same output.
C18_ResolversAgree ==
  /\ rpc \in {"A", "AA"} => rfile = backup_and_resolve_lines(rprev)
  /\ rpc \in {"B", "BB"} => rfile = resolve_conflicts(rprev)

\* C19: after a non-dry run of apply_patch_and_push_fix.py in which every
\* scanned conflicted file was reported resolved, a new has_conflicts scan of
\* the working tree finds nothing.
C19_RescanFindsNothing ==
  (InRun /\ script = "fix" /\ ~args.dry_run /\ pc \in {"publish", "log", "done"}
     /\ conflicts # {} /\ resolved = conflicts)
     => has_conflicts(wt) = {}

\* C20: the resolvers rewrite working-copy files only.  In apply_patch.py
\* the resolution step writes nothing but a file named in the patch that
\* exists and holds a start marker; in apply_patch_and_push_fix.py no file
\* under .git is rewritten or given a .bak sibling by backup_and_resolve.
C20_OnlyWorkingCopyRewritten ==
  [][/\ (script = "apply_patch" /\ pc = "resolve")
          => /\ trace' # trace => F \in A_Conflicted(wt)
             /\ \A n \in DOMAIN wt' :
                   (n \notin DOMAIN wt \/ wt'[n] # wt[n])
                      => (n \in parse_patch_files /\ n \in A_Conflicted(wt))
     /\ (script = "fix" /\ pc = "resolve" /\ ~args.dry_run)
          => /\ cur' # <<>> => ~InGitDir(cur'[1])
             /\ cur # <<>> => ~InGitDir(cur[1])
             /\ \A n \in DOMAIN wt' : InGitDir(n) => n \in DOMAIN wt
    ]_vars

====
